---------------------------- MODULE Spec2Model ----------------------------
(***************************************************************************)
(* Model of samples/instances.js: the yargs command dispatch (lines        *)
(* 221-269) and the five async operation handlers (lines 21-219).  A       *)
(* handler runs synchronously up to its first await; every await is a      *)
(* point where the handler is suspended until the client library settles   *)
(* the call, so each action below runs from one await to the next.         *)
(***************************************************************************)
EXTENDS Naturals, Sequences, FiniteSets

VARIABLES
    argv,        \* the parsed argument vector of the process
    remoteInit,  \* existence of the named instance / cluster before the run
    remote,      \* existence of the named instance / cluster now
    pc,          \* "start", "entry", the await the handler is suspended at, "done", "usage", "help"
    invoked,     \* handler invocations made by the dispatcher
    calls,       \* calls issued on the client library, in order
    responses,   \* settlements received for those calls, in order
    log,         \* lines written to the console
    promise,     \* state of the promise returned by the handler
    exitCode     \* exit status of the process

vars == <<argv, remoteInit, remote, pc, invoked, calls, responses, log, promise, exitCode>>

-----------------------------------------------------------------------------
(* Argument vectors *)

MaxNames == 2

NamePool == <<"foo", "bar", "baz", "qux">>

Names == {NamePool[i] : i \in 1..MaxNames}

\* argv.instance / argv.cluster when the flag is not on the command line
Undefined == "<undefined>"

\* the flag is the last token of the command line: it has no value after it
NoValue == "<no value>"

\* the subcommands registered with .command()
Commands == {"run", "dev-instance", "del-instance", "add-cluster", "del-cluster"}

\* no positional token at all
NoCommand == "<none>"

Argvs ==
    [cmd : Commands \cup {NoCommand, "bogus"},
     instance : Names \cup {Undefined, NoValue},
     cluster : Names \cup {Undefined, NoValue},
     unknownFlag : BOOLEAN,
     help : BOOLEAN]

\* .help(), .demand(1), the registered commands, .nargs(_, 1) and .strict()
Validate_NoStrict(a) ==
    IF a.help THEN "help"
    ELSE IF a.cmd = NoCommand THEN "fail"
    ELSE IF a.cmd \notin Commands THEN "fail"
    ELSE IF a.instance = NoValue \/ a.cluster = NoValue THEN "fail"
    ELSE "ok"

Validate(a) ==
    IF a.help THEN "help"
    ELSE IF a.cmd = NoCommand THEN "fail"
    ELSE IF a.cmd \notin Commands THEN "fail"
    ELSE IF a.instance = NoValue \/ a.cluster = NoValue THEN "fail"
    ELSE IF a.unknownFlag THEN "fail"
    ELSE "ok"

\* the handler each .command() registers, applied to argv
CommandHandler(a) ==
    CASE a.cmd = "run" ->
           [fn |-> "runInstanceOperations", args |-> <<a.instance, a.cluster>>]
      [] a.cmd = "dev-instance" ->
           [fn |-> "createDevInstance", args |-> <<a.instance, a.cluster>>]
      [] a.cmd = "del-instance" ->
           [fn |-> "deleteInstance", args |-> <<a.instance>>]
      [] a.cmd = "add-cluster" ->
           [fn |-> "addCluster", args |-> <<a.instance, a.cluster>>]
      [] a.cmd = "del-cluster" ->
           [fn |-> "deleteCluster", args |-> <<a.instance, a.cluster>>]

-----------------------------------------------------------------------------
(* Handler locals and constants *)

fn == invoked[1].fn

instanceName == invoked[1].args[1]

clusterName == invoked[1].args[2]

Out(msg) == [stream |-> "stdout", msg |-> msg]

Err(msg) == [stream |-> "stderr", msg |-> msg]

\* runInstanceOperations: instanceOptions
instanceOptions(cluster) ==
    [clusters |-> <<[name |-> cluster, nodes |-> 3,
                     location |-> "us-central1-f", storage |-> "ssd"]>>,
     type |-> "PRODUCTION",
     labels |-> [k \in {"prod-label"} |-> "prod-label"]]

\* createDevInstance: options
options_WithNodes(cluster) ==
    [clusters |-> <<[name |-> cluster, nodes |-> 3,
                     location |-> "us-central1-f", storage |-> "hdd"]>>,
     type |-> "DEVELOPMENT",
     labels |-> [k \in {"dev-label"} |-> "dev-label"]]

options(cluster) ==
    [clusters |-> <<[name |-> cluster,
                     location |-> "us-central1-f", storage |-> "hdd"]>>,
     type |-> "DEVELOPMENT",
     labels |-> [k \in {"dev-label"} |-> "dev-label"]]

\* addCluster: clusterOptions
clusterOptions_SameLocation ==
    [location |-> "us-central1-f", nodes |-> 3, storage |-> "ssd"]

clusterOptions ==
    [location |-> "us-central1-c", nodes |-> 3, storage |-> "ssd"]

\* the static text each catch block passes to console.error
ErrPrefix(site) ==
    CASE site = "run.exists" -> "Error checking if Instance exists:"
      [] site = "run.create" -> "Error creating prod-instance:"
      [] site = "run.getInstances" -> "Error listing instances:"
      [] site = "run.get" -> "Error getting instance:"
      [] site = "run.getClusters" -> "Error creating cluster:"
      [] site = "dev.createInstance" -> "Error creating dev-instance:"
      [] site = "delInstance.delete" -> "Error deleting instance:"
      [] site = "addCluster.exists" -> "Error checking if Instance exists:"
      [] site = "addCluster.createCluster" -> "Error creating cluster:"
      [] site = "delCluster.delete" -> "Error deleting cluster:"

\* if (!instanceExists) in runInstanceOperations
run_ifNotExists_Always(instanceExists) == TRUE

run_ifNotExists(instanceExists) == ~instanceExists

\* if (!instanceExists) in addCluster
addCluster_ifNotExists(instanceExists) == ~instanceExists

-----------------------------------------------------------------------------
(* The remote service behind the client library *)

Last(s) == s[Len(s)]

\* the settlements a call can get: a rejection is always possible; a call
\* resolves only when the service can carry it out
RemoteOutcomes(call, r) ==
    LET reject == [ok |-> FALSE, value |-> FALSE, remote |-> r]
        resolve(v, r2) == [ok |-> TRUE, value |-> v, remote |-> r2]
    IN  {reject} \cup
        CASE call.op = "exists" -> {resolve(r.instance, r)}
          [] call.op \in {"create", "createInstance"} ->
               IF r.instance THEN {}
               ELSE {resolve(FALSE, [instance |-> TRUE, cluster |-> TRUE])}
          [] call.op = "getInstances" -> {resolve(FALSE, r)}
          [] call.op \in {"get", "getClusters"} ->
               IF r.instance THEN {resolve(FALSE, r)} ELSE {}
          [] call.op = "createCluster" ->
               IF r.instance /\ ~r.cluster
               THEN {resolve(FALSE, [r EXCEPT !.cluster = TRUE])} ELSE {}
          [] call.op = "instance.delete" ->
               IF r.instance
               THEN {resolve(FALSE, [instance |-> FALSE, cluster |-> FALSE])} ELSE {}
          [] call.op = "cluster.delete" ->
               IF r.cluster
               THEN {resolve(FALSE, [r EXCEPT !.cluster = FALSE])} ELSE {}

\* the awaited call settles
Receive(o) ==
    /\ responses' = Append(responses, [op |-> Last(calls).op, ok |-> o.ok, value |-> o.value])
    /\ remote' = o.remote

\* a call is issued and the handler is suspended on it
Await(site, call) ==
    /\ calls' = Append(calls, call)
    /\ pc' = site
    /\ UNCHANGED <<promise, exitCode>>

\* the handler returns: its promise resolves
Return ==
    /\ pc' = "done"
    /\ promise' = "resolved"
    /\ UNCHANGED <<calls, exitCode>>

\* catch (err) { console.error(prefix, err); return; }
Catch_Retry(site) ==
    /\ log' = Append(log, Err(ErrPrefix(site)))
    /\ IF Len(calls) <= 5
       THEN Await(site, Last(calls))
       ELSE Return

Catch_Rethrow(site) ==
    /\ log' = Append(log, Err(ErrPrefix(site)))
    /\ pc' = "done"
    /\ promise' = "rejected"
    /\ exitCode' = 1
    /\ UNCHANGED calls

Catch(site) ==
    /\ log' = Append(log, Err(ErrPrefix(site)))
    /\ Return

-----------------------------------------------------------------------------
(* Command dispatch *)

Init ==
    /\ argv \in Argvs
    /\ remoteInit \in {[instance |-> FALSE, cluster |-> FALSE],
                       [instance |-> TRUE, cluster |-> FALSE],
                       [instance |-> TRUE, cluster |-> TRUE]}
    /\ remote = remoteInit
    /\ pc = "start"
    /\ invoked = <<>>
    /\ calls = <<>>
    /\ responses = <<>>
    /\ log = <<>>
    /\ promise = "none"
    /\ exitCode = 0

\* --help: usage is printed and the process exits with status 0
DispatchHelp ==
    /\ pc = "start"
    /\ Validate(argv) = "help"
    /\ pc' = "help"
    /\ log' = Append(log, Out("usage"))
    /\ UNCHANGED <<argv, remoteInit, remote, invoked, calls, responses, promise, exitCode>>

\* validation fails: usage goes to stderr and the process exits with status 1
DispatchFail ==
    /\ pc = "start"
    /\ Validate(argv) = "fail"
    /\ pc' = "usage"
    /\ log' = Append(log, Err("usage"))
    /\ exitCode' = 1
    /\ UNCHANGED <<argv, remoteInit, remote, invoked, calls, responses, promise>>

\* the matched command's handler is called with argv
DispatchCommand ==
    /\ pc = "start"
    /\ Validate(argv) = "ok"
    /\ invoked' = Append(invoked, CommandHandler(argv))
    /\ pc' = "entry"
    /\ promise' = "pending"
    /\ UNCHANGED <<argv, remoteInit, remote, calls, responses, log, exitCode>>


-----------------------------------------------------------------------------
(* runInstanceOperations *)

frame == <<argv, remoteInit, invoked>>

run_entry ==
    /\ pc = "entry"
    /\ fn = "runInstanceOperations"
    /\ log' = Append(log, Out("Check Instance Exists"))
    /\ Await("run.exists", [op |-> "exists", instance |-> instanceName])
    /\ UNCHANGED <<frame, remote, responses>>

run_exists ==
    /\ pc = "run.exists"
    /\ \E o \in RemoteOutcomes(Last(calls), remote) :
         /\ Receive(o)
         /\ IF ~o.ok THEN Catch("run.exists")
            ELSE IF run_ifNotExists(o.value)
            THEN /\ log' = Append(log, Out("Creating a PRODUCTION Instance"))
                 /\ Await("run.create",
                          [op |-> "create", instance |-> instanceName,
                           options |-> instanceOptions(clusterName)])
            ELSE /\ log' = log \o <<Out("Instance exists"), Out(""),
                                    Out("Listing Instances:")>>
                 /\ Await("run.getInstances", [op |-> "getInstances"])
    /\ UNCHANGED frame

run_create ==
    /\ pc = "run.create"
    /\ \E o \in RemoteOutcomes(Last(calls), remote) :
         /\ Receive(o)
         /\ IF ~o.ok THEN Catch("run.create")
            ELSE /\ log' = log \o <<Out("Created Instance: "), Out(""),
                                    Out("Listing Instances:")>>
                 /\ Await("run.getInstances", [op |-> "getInstances"])
    /\ UNCHANGED frame

run_getInstances_SkipGet ==
    /\ pc = "run.getInstances"
    /\ \E o \in RemoteOutcomes(Last(calls), remote) :
         /\ Receive(o)
         /\ IF ~o.ok THEN Catch("run.getInstances")
            ELSE /\ log' = log \o <<Out("instance.name"), Out(""),
                                    Out("Listing Clusters...")>>
                 /\ Await("run.getClusters",
                          [op |-> "getClusters", instance |-> instanceName])
    /\ UNCHANGED frame

run_getInstances ==
    /\ pc = "run.getInstances"
    /\ \E o \in RemoteOutcomes(Last(calls), remote) :
         /\ Receive(o)
         /\ IF ~o.ok THEN Catch("run.getInstances")
            ELSE /\ log' = log \o <<Out("instance.name"), Out(""),
                                    Out("Get Instance")>>
                 /\ Await("run.get", [op |-> "get", instance |-> instanceName])
    /\ UNCHANGED frame

run_get ==
    /\ pc = "run.get"
    /\ \E o \in RemoteOutcomes(Last(calls), remote) :
         /\ Receive(o)
         /\ IF ~o.ok THEN Catch("run.get")
            ELSE /\ log' = log \o <<Out("Instance Name: "), Out("Instance Meta: "),
                                    Out(""), Out("Listing Clusters...")>>
                 /\ Await("run.getClusters",
                          [op |-> "getClusters", instance |-> instanceName])
    /\ UNCHANGED frame

run_getClusters ==
    /\ pc = "run.getClusters"
    /\ \E o \in RemoteOutcomes(Last(calls), remote) :
         /\ Receive(o)
         /\ IF ~o.ok THEN Catch("run.getClusters")
            ELSE /\ log' = Append(log, Out("cluster.id"))
                 /\ Return
    /\ UNCHANGED frame

-----------------------------------------------------------------------------
(* createDevInstance *)

dev_entry ==
    /\ pc = "entry"
    /\ fn = "createDevInstance"
    /\ log' = log \o <<Out(""), Out("Creating a DEVELOPMENT Instance")>>
    /\ Await("dev.createInstance",
             [op |-> "createInstance", instance |-> instanceName,
              options |-> options(clusterName)])
    /\ UNCHANGED <<frame, remote, responses>>

dev_createInstance ==
    /\ pc = "dev.createInstance"
    /\ \E o \in RemoteOutcomes(Last(calls), remote) :
         /\ Receive(o)
         /\ IF ~o.ok THEN Catch("dev.createInstance")
            ELSE /\ log' = Append(log, Out("Created development instance: "))
                 /\ Return
    /\ UNCHANGED frame

-----------------------------------------------------------------------------
(* deleteInstance *)

delInstance_entry ==
    /\ pc = "entry"
    /\ fn = "deleteInstance"
    /\ log' = log \o <<Out(""), Out("Deleting Instance")>>
    /\ Await("delInstance.delete",
             [op |-> "instance.delete", instance |-> instanceName])
    /\ UNCHANGED <<frame, remote, responses>>

delInstance_delete ==
    /\ pc = "delInstance.delete"
    /\ \E o \in RemoteOutcomes(Last(calls), remote) :
         /\ Receive(o)
         /\ IF ~o.ok THEN Catch("delInstance.delete")
            ELSE /\ log' = Append(log, Out("Instance deleted: "))
                 /\ Return
    /\ UNCHANGED frame

-----------------------------------------------------------------------------
(* addCluster *)

addCluster_entry ==
    /\ pc = "entry"
    /\ fn = "addCluster"
    /\ Await("addCluster.exists", [op |-> "exists", instance |-> instanceName])
    /\ UNCHANGED <<frame, remote, responses, log>>

addCluster_exists ==
    /\ pc = "addCluster.exists"
    /\ \E o \in RemoteOutcomes(Last(calls), remote) :
         /\ Receive(o)
         /\ IF ~o.ok THEN Catch("addCluster.exists")
            ELSE IF addCluster_ifNotExists(o.value)
            THEN /\ log' = Append(log, Out("Instance does not exists"))
                 /\ Return
            ELSE /\ log' = log \o <<Out(""), Out("Adding Cluster to Instance ")>>
                 /\ Await("addCluster.createCluster",
                          [op |-> "createCluster", instance |-> instanceName,
                           cluster |-> clusterName, options |-> clusterOptions])
    /\ UNCHANGED frame

addCluster_createCluster ==
    /\ pc = "addCluster.createCluster"
    /\ \E o \in RemoteOutcomes(Last(calls), remote) :
         /\ Receive(o)
         /\ IF ~o.ok THEN Catch("addCluster.createCluster")
            ELSE /\ log' = Append(log, Out("Cluster created: "))
                 /\ Return
    /\ UNCHANGED frame

-----------------------------------------------------------------------------
(* deleteCluster *)

delCluster_entry ==
    /\ pc = "entry"
    /\ fn = "deleteCluster"
    /\ log' = log \o <<Out(""), Out("Deleting Cluster")>>
    /\ Await("delCluster.delete",
             [op |-> "cluster.delete", instance |-> instanceName,
              cluster |-> clusterName])
    /\ UNCHANGED <<frame, remote, responses>>

delCluster_delete_NoReturn ==
    /\ pc = "delCluster.delete"
    /\ \E o \in RemoteOutcomes(Last(calls), remote) :
         /\ Receive(o)
         /\ IF ~o.ok
            THEN /\ log' = log \o <<Err(ErrPrefix("delCluster.delete")),
                                    Out("Cluster deleted: ")>>
                 /\ Return
            ELSE /\ log' = Append(log, Out("Cluster deleted: "))
                 /\ Return
    /\ UNCHANGED frame

delCluster_delete ==
    /\ pc = "delCluster.delete"
    /\ \E o \in RemoteOutcomes(Last(calls), remote) :
         /\ Receive(o)
         /\ IF ~o.ok THEN Catch("delCluster.delete")
            ELSE /\ log' = Append(log, Out("Cluster deleted: "))
                 /\ Return
    /\ UNCHANGED frame

-----------------------------------------------------------------------------

Next ==
    \/ DispatchHelp
    \/ DispatchFail
    \/ DispatchCommand
    \/ run_entry
    \/ run_exists
    \/ run_create
    \/ run_getInstances
    \/ run_get
    \/ run_getClusters
    \/ dev_entry
    \/ dev_createInstance
    \/ delInstance_entry
    \/ delInstance_delete
    \/ addCluster_entry
    \/ addCluster_exists
    \/ addCluster_createCluster
    \/ delCluster_entry
    \/ delCluster_delete

Spec == Init /\ [][Next]_vars

-----------------------------------------------------------------------------
(* Properties *)

Running(f) == invoked # <<>> /\ invoked[1].fn = f

CallsTo(op) == LET Is(c) == c.op = op IN SelectSeq(calls, Is)

OpsOf(s) == [i \in 1..Len(s) |-> s[i].op]

Failures == LET Failed(r) == ~r.ok IN SelectSeq(responses, Failed)

ErrLines == LET IsErr(l) == l.stream = "stderr" IN SelectSeq(log, IsErr)

Logged(line) == \E i \in 1..Len(log) : log[i] = line

AllOk == \A i \in 1..Len(responses) : responses[i].ok

Settled(i) == Len(responses) >= i

\* C1: an invocation of one of the five commands that omits a required named
\* argument (--instance for all; --cluster for all but del-instance) never
\* enters a handler, issues no remote call and exits non-zero.
C1_MissingArgumentRejected ==
    ( /\ argv.cmd \in {"run", "dev-instance", "del-instance", "add-cluster", "del-cluster"}
      /\ ~argv.help /\ ~argv.unknownFlag
      /\ argv.instance # NoValue /\ argv.cluster # NoValue
      /\ \/ argv.instance = Undefined
         \/ argv.cmd # "del-instance" /\ argv.cluster = Undefined
      /\ pc # "start" )
    => (invoked = <<>> /\ calls = <<>> /\ exitCode # 0)

\* the handler and arguments the command table prescribes for an argument vector
C2_Expected(a) ==
    [fn |-> CASE a.cmd = "run" -> "runInstanceOperations"
              [] a.cmd = "dev-instance" -> "createDevInstance"
              [] a.cmd = "del-instance" -> "deleteInstance"
              [] a.cmd = "add-cluster" -> "addCluster"
              [] a.cmd = "del-cluster" -> "deleteCluster",
     args |-> IF a.cmd = "del-instance" THEN <<a.instance>>
              ELSE <<a.instance, a.cluster>>]

C2_Recognized == {"run", "dev-instance", "del-instance", "add-cluster", "del-cluster"}

C3_CreateIffAbsent ==
    Running("runInstanceOperations") =>
      LET creates == CallsTo("create")
      IN  /\ Len(creates) <= 1
          /\ Len(creates) = 1 <=>
               (Settled(1) /\ responses[1].ok /\ ~responses[1].value)
          /\ Len(creates) = 1 =>
               /\ creates[1].instance = instanceName
               /\ Len(creates[1].options.clusters) = 1
               /\ creates[1].options.clusters[1] =
                    [name |-> clusterName, nodes |-> 3,
                     location |-> "us-central1-f", storage |-> "ssd"]
               /\ creates[1].options.type = "PRODUCTION"

C3_Witness ==
    /\ Running("runInstanceOperations")
    /\ ~remoteInit.instance
    /\ Len(CallsTo("create")) = 1
    /\ Settled(2) /\ responses[2].ok

\* C4: in a run invocation whose calls all succeed and whose existence check
\* returns false, the calls are exists, create, getInstances, get, getClusters in
\* that order, each once, and a call is issued only after the previous one has
\* settled: at most one call is outstanding at any time.
C4_RunOrder ==
    Running("runInstanceOperations") =>
      LET order == <<"exists", "create", "getInstances", "get", "getClusters">>
      IN  /\ Len(responses) <= Len(calls)
          /\ Len(calls) <= Len(responses) + 1
          /\ (AllOk /\ (Settled(1) => ~responses[1].value)) =>
               /\ Len(calls) <= Len(order)
               /\ OpsOf(calls) = SubSeq(order, 1, Len(calls))
               /\ pc = "done" => OpsOf(calls) = order

C4_Witness ==
    /\ Running("runInstanceOperations")
    /\ pc = "done"
    /\ Len(responses) = 5
    /\ AllOk
    /\ ~responses[1].value

\* C5: in the run handler the failure of any remote call is logged and ends the
\* invocation: the failed call is the last call ever issued.
C5_FailureAborts ==
    Running("runInstanceOperations") =>
      \A i \in 1..Len(responses) :
        ~responses[i].ok =>
          /\ Len(calls) = i
          /\ Len(responses) = i
          /\ pc = "done"
          /\ Len(ErrLines) = 1
          /\ Last(log).stream = "stderr"

C5_Witness ==
    /\ Running("runInstanceOperations")
    /\ pc = "done"
    /\ Len(responses) = 3
    /\ ~responses[3].ok
    /\ Len(calls) = 3

\* C6: in the add-cluster handler, an existence check that fails or returns
\* false is followed by no createCluster call (and a "does not exist" line in the
\* second case); one that returns true is followed by exactly one createCluster
\* call with 3 nodes, ssd and location us-central1-c, which is not the location
\* of the instance's own cluster.
C6_AddClusterGuard ==
    Running("addCluster") =>
      LET cc == CallsTo("createCluster")
      IN  /\ ~Settled(1) => Len(cc) = 0
          /\ (Settled(1) /\ ~responses[1].ok) => Len(cc) = 0
          /\ (Settled(1) /\ responses[1].ok /\ ~responses[1].value) =>
               /\ Len(cc) = 0
               /\ Logged([stream |-> "stdout", msg |-> "Instance does not exists"])
          /\ (Settled(1) /\ responses[1].ok /\ responses[1].value) =>
               /\ Len(cc) = 1
               /\ ~Logged([stream |-> "stdout", msg |-> "Instance does not exists"])
               /\ cc[1].instance = instanceName
               /\ cc[1].cluster = clusterName
               /\ cc[1].options.nodes = 3
               /\ cc[1].options.storage = "ssd"
               /\ cc[1].options.location = "us-central1-c"
               /\ cc[1].options.location #
                    instanceOptions(clusterName).clusters[1].location

C6_Witness ==
    /\ Running("addCluster")
    /\ pc = "done"
    /\ Len(responses) = 2
    /\ responses[1].value
    /\ responses[2].ok

\* C7: del-instance and del-cluster issue exactly one call, the delete of the
\* named resource, whatever the resource's existence, and log exactly one of a
\* success line (only after a successful delete) or a failure line (only after
\* a failed one).
C7_DeleteOnce ==
    /\ (Running("deleteInstance") /\ pc # "entry") =>
         /\ calls = <<[op |-> "instance.delete", instance |-> instanceName]>>
         /\ pc = "done" =>
              LET ok == Logged([stream |-> "stdout", msg |-> "Instance deleted: "])
                  ko == Logged([stream |-> "stderr", msg |-> "Error deleting instance:"])
              IN  /\ Len(responses) = 1
                  /\ ok <=> responses[1].ok
                  /\ ko <=> ~responses[1].ok
    /\ (Running("deleteCluster") /\ pc # "entry") =>
         /\ calls = <<[op |-> "cluster.delete", instance |-> instanceName,
                       cluster |-> clusterName]>>
         /\ pc = "done" =>
              LET ok == Logged([stream |-> "stdout", msg |-> "Cluster deleted: "])
                  ko == Logged([stream |-> "stderr", msg |-> "Error deleting cluster:"])
              IN  /\ Len(responses) = 1
                  /\ ok <=> responses[1].ok
                  /\ ko <=> ~responses[1].ok

C7_Witness ==
    /\ Running("deleteCluster")
    /\ pc = "done"
    /\ ~remoteInit.cluster
    /\ Len(calls) = 1
    /\ ~responses[1].ok
    /\ Len(ErrLines) = 1

\* C8: dev-instance issues exactly one call, a createInstance with type
\* DEVELOPMENT and one cluster entry with storage hdd and no node count, with no
\* existence check; on an instance that already exists the call is still
\* issued, and its failure is the remote one, which is logged.
C8_DevCreate ==
    (Running("createDevInstance") /\ pc # "entry") =>
      /\ Len(calls) = 1
      /\ calls[1].op = "createInstance"
      /\ calls[1].instance = instanceName
      /\ calls[1].options.type = "DEVELOPMENT"
      /\ Len(calls[1].options.clusters) = 1
      /\ calls[1].options.clusters[1].name = clusterName
      /\ calls[1].options.clusters[1].storage = "hdd"
      /\ "nodes" \notin DOMAIN calls[1].options.clusters[1]
      /\ (pc = "done" /\ remoteInit.instance) =>
           /\ ~responses[1].ok
           /\ Logged([stream |-> "stderr", msg |-> "Error creating dev-instance:"])

C8_Witness ==
    /\ Running("createDevInstance")
    /\ pc = "done"
    /\ remoteInit.instance
    /\ Len(calls) = 1
    /\ ~responses[1].ok

\* the operation a failure prefix names
C9_Names(msg) ==
    CASE msg = "Error checking if Instance exists:" -> {"exists"}
      [] msg = "Error creating prod-instance:" -> {"create"}
      [] msg = "Error creating dev-instance:" -> {"createInstance"}
      [] msg = "Error listing instances:" -> {"getInstances"}
      [] msg = "Error getting instance:" -> {"get"}
      [] msg = "Error creating cluster:" -> {"createCluster"}
      [] msg = "Error deleting instance:" -> {"instance.delete"}
      [] msg = "Error deleting cluster:" -> {"cluster.delete"}
      [] OTHER -> {}

\* C9: every failed remote call is logged to stderr with the prefix that names
\* the operation that failed, and not another operation.
C9_PrefixNamesOperation ==
    invoked # <<>> =>
      /\ Len(ErrLines) = Len(Failures)
      /\ \A i \in 1..Len(Failures) :
           Failures[i].op \in C9_Names(ErrLines[i].msg)

\* C10: in every handler no call site is issued twice, whatever succeeds or
\* fails; the handler's promise is never rejected and is resolved when the
\* handler is done; the exit status stays zero.
C10_NoRetryNoRethrow ==
    invoked # <<>> =>
      /\ Len(invoked) = 1
      /\ \A i, j \in 1..Len(calls) : i # j => calls[i].op # calls[j].op
      /\ Len(Failures) <= 1
      /\ promise # "rejected"
      /\ pc = "done" => promise = "resolved"
      /\ exitCode = 0

C10_Witness ==
    /\ pc = "done"
    /\ Running("addCluster")
    /\ Len(responses) = 2
    /\ ~responses[2].ok
    /\ promise = "resolved"
    /\ exitCode = 0

=============================================================================
